---- MODULE Spec2Model ----
(***************************************************************************)
(* Model of riskvar_analysis.py: the MarketRiskAnalyzer object (data,      *)
(* results, confidence_level), its constructor and its five public         *)
(* operations.                                                             *)
(*                                                                         *)
(* Numbers.  Floats are modelled in fixed point:                           *)
(*   - a Close cell is a positive integer price or NaN (an empty cell);    *)
(*   - a return is an integer number of 1e-9 units;                        *)
(*   - a VaR value is an integer number of 1e-6 units, the float rounded   *)
(*     to the digits the report's ".4%" format prints;                     *)
(*   - confidence_level is an integer percentage (95 for 0.95).            *)
(* A float value is a record [k, v]: k = "num" with the integer v,         *)
(* k = "nan" for NaN, k = "none" for Python's None.                        *)
(***************************************************************************)
EXTENDS Integers, Sequences, FiniteSets

VARIABLES
    file,       \* the table behind file_path, as the last load_data found it
    conf,       \* self.confidence_level, in percent
    data,       \* self.data
    results,    \* self.results, a mapping from key to value
    pc,         \* "constructing" inside __init__, "returned" when a call has just
                \* come back to the caller, "ready" when the caller makes the next
    op,         \* the method called last
    ret,        \* what that call returned
    exc,        \* the exception that call raised, "none" if it returned
    out,        \* what that call printed or drew
    overwrote   \* whether that call's store replaced an entry results already held

vars == <<file, conf, data, results, pc, op, ret, exc, out, overwrote>>

\* ---------------------------------------------------------------- bounds
MaxRows == 3

\* ---------------------------------------------------------------- values
Num(x) == [k |-> "num", v |-> x]
NaN == [k |-> "nan", v |-> 0]
NoneVal == [k |-> "none", v |-> 0]
IsNum(x) == x.k = "num"

HIST == "Historical VaR"
PARAM == "Parametric VaR"

\* The confidence levels the model constructs analyzers with: the default
\* of __init__, the value of the main block, and the median.
Confs == {50, 95, 97}

\* ---------------------------------------------------------------- input
\* the closing prices of the input tables
Prices == {1, 2}

CloseCells == {Num(p) : p \in Prices} \cup {NaN}

Perms(k) == {f \in [1..k -> 1..k] : \A i, j \in 1..k : i # j => f[i] # f[j]}

\* One row per trading day: the dates of a k-row table are the day ordinals
\* 1..k in any order.
TablesDateClose ==
    UNION {{[i \in 1..k |-> [Date |-> p[i], Close |-> c[i]]] :
                p \in Perms(k), c \in [1..k -> CloseCells]} : k \in 1..MaxRows}
TablesDateOnly ==
    UNION {{[i \in 1..k |-> [Date |-> p[i]]] : p \in Perms(k)} : k \in 1..MaxRows}
TablesCloseOnly ==
    UNION {{[i \in 1..k |-> [Close |-> c[i]]] : c \in [1..k -> CloseCells]} :
                k \in 1..MaxRows}

\* A sheet may bring a Returns column of its own.  With Date and Close both
\* present load_data overwrites it (line 43), which leaves the tables above;
\* with either absent the column stays as read.  Its cells, in units of 1e-9:
OwnReturns == {10000000}

ReturnCells == {Num(r) : r \in OwnReturns}

TablesReturnsOnly ==
    UNION {{[i \in 1..k |-> [Returns |-> r[i]]] : r \in [1..k -> ReturnCells]} :
                k \in 1..MaxRows}
TablesDateReturns ==
    UNION {{[i \in 1..k |-> [Date |-> p[i], Returns |-> r[i]]] :
                p \in Perms(k), r \in [1..k -> ReturnCells]} : k \in 1..MaxRows}
TablesCloseReturns ==
    UNION {{[i \in 1..k |-> [Close |-> Num(c[i]), Returns |-> r[i]]] :
                c \in [1..k -> Prices], r \in [1..k -> ReturnCells]} : k \in 1..MaxRows}

Unreadable == [readable |-> FALSE, cols |-> {}, rows |-> <<>>]

Files ==
    {Unreadable}
    \cup {[readable |-> TRUE, cols |-> {"Date", "Close"}, rows |-> t] : t \in TablesDateClose}
    \cup {[readable |-> TRUE, cols |-> {"Date"}, rows |-> t] : t \in TablesDateOnly}
    \cup {[readable |-> TRUE, cols |-> {"Close"}, rows |-> t] : t \in TablesCloseOnly}
    \cup {[readable |-> TRUE, cols |-> {"Returns"}, rows |-> t] : t \in TablesReturnsOnly}
    \cup {[readable |-> TRUE, cols |-> {"Date", "Returns"}, rows |-> t] : t \in TablesDateReturns}
    \cup {[readable |-> TRUE, cols |-> {"Close", "Returns"}, rows |-> t] : t \in TablesCloseReturns}

\* ---------------------------------------------------------------- numerics
\* round(10^9 * ln(a / b)) for prices a, b in 1..5.
LnRatioNano ==
    << <<0, -693147181, -1098612289, -1386294361, -1609437912>>,
       <<693147181, 0, -405465108, -693147181, -916290732>>,
       <<1098612289, 405465108, 0, -287682072, -510825624>>,
       <<1386294361, 693147181, 287682072, 0, -223143551>>,
       <<1609437912, 916290732, 510825624, 223143551, 0>> >>

\* Mutant of LogReturn: the log of the price itself, not of the ratio.
LogReturnOfPrice(close, prev) ==
    IF IsNum(close) /\ IsNum(prev) THEN Num(LnRatioNano[close.v][1]) ELSE NaN

\* np.log(close / previous): NaN when either cell is NaN.
LogReturn(close, prev) ==
    IF IsNum(close) /\ IsNum(prev) THEN Num(LnRatioNano[close.v][prev.v]) ELSE NaN

\* x / d rounded to the nearest integer (d > 0)
RoundDiv(x, d) == (2 * x + d) \div (2 * d)

\* The sums, squares and roots of np.mean, np.std and Series.std leave 32
\* bits when the returns are held to 1e-9.  They are computed exactly on
\* natural numbers written as the sequence of their base-10^4 digits, least
\* significant digit first and no leading zero (<<>> is 0).
RECURSIVE BigOf(_)
BigOf(x) == IF x = 0 THEN <<>> ELSE <<x % 10000>> \o BigOf(x \div 10000)

RECURSIVE BigToInt(_)
BigToInt(a) == IF a = <<>> THEN 0 ELSE Head(a) + 10000 * BigToInt(Tail(a))

RECURSIVE BigTrim(_)
BigTrim(a) ==
    IF a # <<>> /\ a[Len(a)] = 0 THEN BigTrim(SubSeq(a, 1, Len(a) - 1)) ELSE a

\* the number whose digit i is a[i], the a[i] being any naturals
RECURSIVE BigCarry(_, _)
BigCarry(a, c) ==
    IF a = <<>> THEN BigOf(c)
    ELSE <<(Head(a) + c) % 10000>> \o BigCarry(Tail(a), (Head(a) + c) \div 10000)

BigDigit(a, i) == IF i <= Len(a) THEN a[i] ELSE 0

BigAdd(a, b) ==
    LET n == IF Len(a) >= Len(b) THEN Len(a) ELSE Len(b)
    IN BigCarry([i \in 1..n |-> BigDigit(a, i) + BigDigit(b, i)], 0)

\* a - b - c for a >= b + c, digit by digit with the borrow c
RECURSIVE BigBorrow(_, _, _)
BigBorrow(a, b, c) ==
    IF a = <<>> THEN <<>>
    ELSE LET d == Head(a) - BigDigit(b, 1) - c
         IN <<d % 10000>>
            \o BigBorrow(Tail(a), IF b = <<>> THEN <<>> ELSE Tail(b), IF d < 0 THEN 1 ELSE 0)

BigSub(a, b) == BigTrim(BigBorrow(a, b, 0))

\* a < b
RECURSIVE BigLess(_, _)
BigLess(a, b) ==
    IF Len(a) # Len(b) THEN Len(a) < Len(b)
    ELSE IF a = <<>> THEN FALSE
    ELSE IF a[Len(a)] # b[Len(b)] THEN a[Len(a)] < b[Len(b)]
    ELSE BigLess(SubSeq(a, 1, Len(a) - 1), SubSeq(b, 1, Len(b) - 1))

\* a * m for a natural m <= 200000
BigMulSmall(a, m) == BigTrim(BigCarry([i \in 1..Len(a) |-> a[i] * m], 0))

\* the sum of the products a[i] * b[k + 1 - i] over the digits i..Len(a)
RECURSIVE BigConv(_, _, _, _)
BigConv(a, b, k, i) ==
    IF i > Len(a) THEN 0
    ELSE (IF k + 1 - i \in 1..Len(b) THEN a[i] * b[k + 1 - i] ELSE 0) + BigConv(a, b, k, i + 1)

BigMul(a, b) ==
    IF a = <<>> \/ b = <<>> THEN <<>>
    ELSE BigTrim(BigCarry([k \in 1..(Len(a) + Len(b) - 1) |-> BigConv(a, b, k, 1)], 0))

\* a * 10^(4k)
BigShift(a, k) == IF a = <<>> THEN <<>> ELSE [i \in 1..k |-> 0] \o a

\* floor(a / 10^(4k))
BigDrop(a, k) == IF Len(a) <= k THEN <<>> ELSE SubSeq(a, k + 1, Len(a))

\* the digits of floor((rem * 10^(4 Len(a)) + a) / d) for rem < d <= 200000
RECURSIVE BigDivFrom(_, _, _)
BigDivFrom(a, d, rem) ==
    IF a = <<>> THEN <<>>
    ELSE LET cur == rem * 10000 + a[Len(a)]
         IN BigDivFrom(SubSeq(a, 1, Len(a) - 1), d, cur % d) \o <<cur \div d>>

\* floor(a / d) for 1 <= d <= 200000
BigDiv(a, d) == BigTrim(BigDivFrom(a, d, 0))

\* a / (d * 10^(4k)) rounded to the nearest integer, for 1 <= d <= 100000
BigRound(a, d, k) ==
    BigToInt(BigDrop(BigDiv(BigAdd(BigMulSmall(a, 2), BigShift(BigOf(d), k)), 2 * d), k))

\* the largest g in lo..hi with (base + g) * g <= rem
RECURSIVE BigSqrtDigit(_, _, _, _)
BigSqrtDigit(base, rem, lo, hi) ==
    IF lo >= hi THEN lo
    ELSE LET mid == (lo + hi + 1) \div 2
         IN IF BigLess(rem, BigMulSmall(BigAdd(base, BigOf(mid)), mid))
            THEN BigSqrtDigit(base, rem, lo, mid - 1)
            ELSE BigSqrtDigit(base, rem, mid, hi)

\* One step of the longhand square root in base 10^4.  st.r is the root
\* found so far and st.rem the remainder; the step brings down the next two
\* digits hi, lo of the radicand and appends one digit to the root.
BigSqrtStep(st, hi, lo) ==
    LET rem == BigTrim(<<lo, hi>> \o st.rem)
        base == BigShift(BigMulSmall(st.r, 2), 1)
        g == BigSqrtDigit(base, rem, 0, 9999)
    IN [r |-> BigTrim(<<g>> \o st.r),
        rem |-> BigSub(rem, BigMulSmall(BigAdd(base, BigOf(g)), g))]

\* the root and remainder once the digit pairs of a from the top one down
\* to pair j (digits 2j and 2j - 1) are brought down
RECURSIVE BigSqrtFrom(_, _)
BigSqrtFrom(a, j) ==
    IF 2 * j - 1 > Len(a) THEN [r |-> <<>>, rem |-> <<>>]
    ELSE BigSqrtStep(BigSqrtFrom(a, j + 1), BigDigit(a, 2 * j), BigDigit(a, 2 * j - 1))

\* floor(sqrt(a))
BigSqrt(a) == BigSqrtFrom(a, 1).r

\* the sum of the entries of s of sign sgn (1 or -1), as a magnitude
RECURSIVE BigSum(_, _)
BigSum(s, sgn) ==
    IF s = <<>> THEN <<>>
    ELSE BigAdd(IF Head(s) * sgn > 0 THEN BigOf(Head(s) * sgn) ELSE <<>>, BigSum(Tail(s), sgn))

RECURSIVE BigSumSq(_)
BigSumSq(s) ==
    IF s = <<>> THEN <<>>
    ELSE LET h == BigOf(IF Head(s) < 0 THEN 0 - Head(s) ELSE Head(s))
         IN BigAdd(BigMul(h, h), BigSumSq(Tail(s)))

\* n^2 times the population variance of s: n * sum of squares - sum^2
ScaledVariance(s) ==
    LET p == BigSum(s, 1)
        m == BigSum(s, -1)
        a == IF BigLess(p, m) THEN BigSub(m, p) ELSE BigSub(p, m)
    IN BigSub(BigMulSmall(BigSumSq(s), Len(s)), BigMul(a, a))

\* ---------------------------------------------------------------- load_data
NoneData == [none |-> TRUE, cols |-> {}, rows |-> <<>>]
Frame(cols, rows) == [none |-> FALSE, cols |-> cols, rows |-> rows]

RECURSIVE InsertByDate(_, _)
InsertByDate(row, sorted) ==
    IF sorted = <<>> THEN <<row>>
    ELSE IF Head(sorted).Date <= row.Date
         THEN <<Head(sorted)>> \o InsertByDate(row, Tail(sorted))
         ELSE <<row>> \o sorted

RECURSIVE SortByDate(_)
SortByDate(rows) ==
    IF rows = <<>> THEN <<>>
    ELSE InsertByDate(rows[Len(rows)], SortByDate(SubSeq(rows, 1, Len(rows) - 1)))

\* data['Returns'] = np.log(data['Close'] / data['Close'].shift(1))
WithReturns(rows) ==
    [i \in 1..Len(rows) |->
        [Date |-> rows[i].Date,
         Close |-> rows[i].Close,
         Returns |-> IF i = 1 THEN NaN ELSE LogReturn(rows[i].Close, rows[i - 1].Close)]]

HasNaN(row) == row.Close.k = "nan" \/ row.Returns.k = "nan"

\* DataFrame.dropna(): every row holding a NaN in any column goes
DropNa(rows) == SelectSeq(rows, LAMBDA r : ~HasNaN(r))

LoadOk(f) == f.readable /\ "Date" \in f.cols /\ "Close" \in f.cols

\* self.data as load_data leaves it, given the data it found
LoadedData(f, old) ==
    IF ~f.readable THEN old
    ELSE IF "Date" \notin f.cols THEN Frame(f.cols, f.rows)
    ELSE IF "Close" \notin f.cols THEN Frame(f.cols, SortByDate(f.rows))
    ELSE Frame({"Date", "Close", "Returns"}, DropNa(WithReturns(SortByDate(f.rows))))

\* the second line load_data prints, d being self.data as the call leaves it
LoadMessage(f, d) ==
    IF ~f.readable THEN [kind |-> "error", text |-> "FileNotFoundError", days |-> 0]
    ELSE IF "Date" \notin f.cols THEN [kind |-> "error", text |-> "KeyError: 'Date'", days |-> 0]
    ELSE IF "Close" \notin f.cols THEN [kind |-> "error", text |-> "KeyError: 'Close'", days |-> 0]
    ELSE [kind |-> "loaded", text |-> "Data loaded successfully", days |-> Len(d.rows)]

\* ---------------------------------------------------------------- calculators
RECURSIVE InsertAsc(_, _)
InsertAsc(x, sorted) ==
    IF sorted = <<>> THEN <<x>>
    ELSE IF Head(sorted) <= x
         THEN <<Head(sorted)>> \o InsertAsc(x, Tail(sorted))
         ELSE <<x>> \o sorted

RECURSIVE SortAsc(_)
SortAsc(s) == IF s = <<>> THEN <<>> ELSE InsertAsc(Head(s), SortAsc(Tail(s)))

\* the Returns column of a frame that holds one, in units of 1e-9
ReturnsOf(d) == [i \in 1..Len(d.rows) |-> d.rows[i].Returns.v]

\* Series.quantile(q) with q = qpct / 100, linear interpolation between the
\* order statistics around position q * (n - 1); NaN for an empty series.
\* The value is (lower * (100 - frac) + upper * frac) / 100 in 1e-9, rounded
\* to 1e-6; either return is split at 10^5 to keep the products in 32 bits.
Quantile(s, qpct) ==
    IF Len(s) = 0 THEN NaN
    ELSE LET sorted == SortAsc(s)
             n == Len(s)
             pos == qpct * (n - 1)
             lo == (pos \div 100) + 1
             frac == pos % 100
             hi == IF lo + 1 <= n THEN lo + 1 ELSE n
             whole == (sorted[lo] \div 100000) * (100 - frac) + (sorted[hi] \div 100000) * frac
             part == (sorted[lo] % 100000) * (100 - frac) + (sorted[hi] % 100000) * frac
         IN Num(whole + RoundDiv(part, 100000))

\* Mutant of HistoricalValue: the quantile taken at confidence_level itself.
HistoricalValueAtConfidence(d, c) == Quantile(ReturnsOf(d), c)

\* var_percentile = 1 - confidence_level; Returns.quantile(var_percentile)
HistoricalValue(d, c) == Quantile(ReturnsOf(d), 100 - c)

\* round(-10^9 * stats.norm.ppf(p / 100)) for the tail probabilities of
\* Confs: ppf(0.5) = 0, ppf(0.05) = -1.6448536270, ppf(0.03) = -1.8807936082
NormPpfNanoAbs(p) ==
    IF p = 50 THEN 0 ELSE IF p = 5 THEN 1644853627 ELSE 1880793608

\* mu + z * sigma with mu = np.mean, sigma = np.std (population, divisor N)
\* and z = norm.ppf(1 - confidence_level) <= 0, rounded to 1e-6:
\* (sum - |z| * sqrt(n * sum of squares - sum^2)) / n, the positive and the
\* negative part of the numerator gathered apart, in units of 1e-18.
ParametricValue(d, c) ==
    LET s == ReturnsOf(d)
        n == Len(s)
        nano == BigOf(1000000000)
        zroot == BigMul(BigOf(NormPpfNanoAbs(100 - c)), BigSqrt(ScaledVariance(s)))
        pos == BigMul(BigSum(s, 1), nano)
        neg == BigAdd(BigMul(BigSum(s, -1), nano), zroot)
    IN IF n = 0 THEN NaN
       ELSE IF BigLess(pos, neg) THEN Num(0 - BigRound(BigSub(neg, pos), n, 3))
       ELSE Num(BigRound(BigSub(pos, neg), n, 3))

\* Mutant of Put: a key already present gets a second entry beside the first.
PutAppending(res, key, value) ==
    LET k == IF key \in DOMAIN res THEN "duplicate" ELSE key
    IN [x \in DOMAIN res \cup {k} |-> IF x = k THEN value ELSE res[x]]

\* Mutant of Put: the mapping is replaced by one holding the new entry only.
PutAlone(res, key, value) == [x \in {key} |-> value]

\* self.results[key] = value
Put(res, key, value) ==
    [x \in DOMAIN res \cup {key} |-> IF x = key THEN value ELSE res[x]]

\* self.results.get(key, 0)
Get(res, key) == IF key \in DOMAIN res THEN res[key] ELSE Num(0)

\* the exception a read of data['Returns'] raises
ReturnsError(d) ==
    IF d.none THEN "TypeError"
    ELSE IF "Returns" \notin d.cols THEN "KeyError: 'Returns'"
    ELSE "none"

\* ---------------------------------------------------------------- report
\* Series.std() of pandas (sample, divisor N - 1) printed with ".4f":
\* sqrt(n^2 * variance / (n * (n - 1))) rounded to the nearest 1e-4; NaN
\* below two returns.
Volatility(d) ==
    LET s == ReturnsOf(d)
        n == Len(s)
    IN IF n < 2 THEN NaN
       ELSE Num(BigRound(BigSqrt(BigMulSmall(ScaledVariance(s), n * (n - 1))),
                         10 * n * (n - 1), 1))

\* x / 100 rounded to the nearest integer, as the format rounds the binary
\* float: off a tie the nearest; on a decimal tie either neighbour, since the
\* float the model value stands for lies on one side of the tie or the other.
RoundHundredth(x) ==
    LET q == x \div 100
        r == x % 100
    IN IF r < 50 THEN {q}
       ELSE IF r > 50 THEN {q + 1}
       ELSE {q, q + 1}

\* -1 * value printed with ".2%", in units of 1e-4: the strings it may print
LossPercent2(value) ==
    IF IsNum(value) THEN {Num(x) : x \in RoundHundredth(0 - value.v)} ELSE {NaN}

ReportHeader(c) == [kind |-> "report_header", confidence |-> c]

\* the texts generate_risk_report may print
ReportText(d, res, c) ==
    {[kind |-> "report",
      confidence |-> c,
      volatility |-> Volatility(d),
      historical |-> Get(res, HIST),
      parametric |-> Get(res, PARAM),
      loss |-> l] : l \in LossPercent2(Get(res, PARAM))}

\* ---------------------------------------------------------------- chart
\* the exception visualize_risk raises: the histogram reads data['Returns']
\* first, the two axvline calls then read results[...] directly
VisualizeError(d, res) ==
    IF ReturnsError(d) # "none" THEN ReturnsError(d)
    ELSE IF HIST \notin DOMAIN res THEN "KeyError: 'Historical VaR'"
    ELSE IF PARAM \notin DOMAIN res THEN "KeyError: 'Parametric VaR'"
    ELSE "none"

Chart(d, res) ==
    [kind |-> "chart", plotted |-> Len(d.rows),
     historical |-> res[HIST], parametric |-> res[PARAM]]

NoOut == [kind |-> "nothing"]
EmptyResults == [x \in {} |-> NaN]

Init ==
    /\ file \in Files
    /\ conf \in Confs
    /\ data = NoneData
    /\ results = EmptyResults
    /\ pc = "constructing"
    /\ op = "__init__"
    /\ ret = NoneVal
    /\ exc = "none"
    /\ out = NoOut
    /\ overwrote = FALSE

\* load_data: called by __init__ and callable again on the constructed
\* analyzer, when the table behind file_path may be the same or any other.
LoadData ==
    /\ pc \in {"constructing", "ready"}
    /\ IF pc = "constructing" THEN file' = file ELSE file' \in Files
    /\ data' = LoadedData(file', data)
    /\ out' = LoadMessage(file', data')
    /\ pc' = "returned"
    /\ op' = "load_data"
    /\ ret' = NoneVal
    /\ exc' = "none"
    /\ overwrote' = FALSE
    /\ UNCHANGED <<conf, results>>

CalculateHistoricalVar ==
    /\ pc = "ready"
    /\ op' = "calculate_historical_var"
    /\ out' = NoOut
    /\ IF data.none
       THEN /\ ret' = NoneVal
            /\ exc' = "none"
            /\ overwrote' = FALSE
            /\ UNCHANGED results
       ELSE IF ReturnsError(data) # "none"
       THEN /\ ret' = NoneVal
            /\ exc' = ReturnsError(data)
            /\ overwrote' = FALSE
            /\ UNCHANGED results
       ELSE /\ overwrote' = (HIST \in DOMAIN results)
            /\ ret' = HistoricalValue(data, conf)
            /\ exc' = "none"
            /\ results' = Put(results, HIST, ret')
    /\ pc' = "returned"
    /\ UNCHANGED <<file, conf, data>>

CalculateParametricVar ==
    /\ pc = "ready"
    /\ op' = "calculate_parametric_var"
    /\ out' = NoOut
    /\ IF data.none
       THEN /\ ret' = NoneVal
            /\ exc' = "none"
            /\ overwrote' = FALSE
            /\ UNCHANGED results
       ELSE IF ReturnsError(data) # "none"
       THEN /\ ret' = NoneVal
            /\ exc' = ReturnsError(data)
            /\ overwrote' = FALSE
            /\ UNCHANGED results
       ELSE /\ overwrote' = (PARAM \in DOMAIN results)
            /\ ret' = ParametricValue(data, conf)
            /\ exc' = "none"
            /\ results' = Put(results, PARAM, ret')
    /\ pc' = "returned"
    /\ UNCHANGED <<file, conf, data>>

GenerateRiskReport ==
    /\ pc = "ready"
    /\ op' = "generate_risk_report"
    /\ ret' = NoneVal
    /\ exc' = ReturnsError(data)
    /\ out' \in IF ReturnsError(data) # "none"
                 THEN {ReportHeader(conf)}
                 ELSE ReportText(data, results, conf)
    /\ overwrote' = FALSE
    /\ pc' = "returned"
    /\ UNCHANGED <<file, conf, data, results>>

VisualizeRisk ==
    /\ pc = "ready"
    /\ op' = "visualize_risk"
    /\ ret' = NoneVal
    /\ exc' = VisualizeError(data, results)
    /\ out' = IF VisualizeError(data, results) # "none"
              THEN NoOut
              ELSE Chart(data, results)
    /\ overwrote' = FALSE
    /\ pc' = "returned"
    /\ UNCHANGED <<file, conf, data, results>>

\* The call is over: the caller, which has seen what it returned, raised and
\* printed, goes on to its next call on the same analyzer.
Return ==
    /\ pc = "returned"
    /\ pc' = "ready"
    /\ op' = "none"
    /\ ret' = NoneVal
    /\ exc' = "none"
    /\ out' = NoOut
    /\ overwrote' = FALSE
    /\ UNCHANGED <<file, conf, data, results>>

Next ==
    \/ LoadData
    \/ CalculateHistoricalVar
    \/ CalculateParametricVar
    \/ GenerateRiskReport
    \/ VisualizeRisk
    \/ Return

Spec == Init /\ [][Next]_vars

\* ---------------------------------------------------------------- claims
Calculators == {"calculate_historical_var", "calculate_parametric_var"}
KeyErrors ==
    {"KeyError: 'Returns'", "KeyError: 'Historical VaR'", "KeyError: 'Parametric VaR'"}

\* the confidence levels Historical VaR is compared across, in percent
Levels == 1..99

\* the key a calculator stores under
KeyOf(call) == IF call = "calculate_historical_var" THEN HIST ELSE PARAM

\* the value a calculator computes from a frame that holds Returns
ValueOf(call, d, c) ==
    IF call = "calculate_historical_var" THEN HistoricalValue(d, c) ELSE ParametricValue(d, c)

\* C1: when the source cannot be read or lacks the Date or Close column,
\* load_data, and with it the construction that calls it, fails with a
\* DataLoadError: no load_data call comes back normally from a failed load.
C1_FailedLoadNeverReturnsAnalyzer ==
    (op = "load_data" /\ ~LoadOk(file)) => exc = "DataLoadError"

\* C2: for an input of fewer than 2 rows, either calculator fails with an
\* InsufficientDataError and returns no value.
C2_TooFewRowsFailsExplicitly ==
    (LoadOk(file) /\ Len(file.rows) < 2 /\ op \in Calculators) =>
        /\ exc = "InsufficientDataError"
        /\ ret = NoneVal

\* C3: a successfully read table of N+1 rows is retained as exactly N rows:
\* the chronologically first row is dropped and no other row, whatever the
\* cells of the table hold.
C3_ExactlyFirstRowDropped ==
    (pc # "constructing" /\ LoadOk(file)) =>
        /\ Len(data.rows) = Len(file.rows) - 1
        /\ data.rows = Tail(WithReturns(SortByDate(file.rows)))

\* C4: in every reachable state generate_risk_report completes without
\* raising and its text holds both VaR lines, an absent result shown as zero.
C4_ReportAlwaysCompletes ==
    op = "generate_risk_report" =>
        /\ exc = "none"
        /\ out.kind = "report"
        /\ out.historical = Get(results, HIST)
        /\ out.parametric = Get(results, PARAM)

\* C5: visualize_risk fails with a lookup error whenever results lacks the
\* Historical VaR key or the Parametric VaR key, and completes only when both
\* calculators have stored a value.
C5_VisualizeLookupError ==
    op = "visualize_risk" =>
        /\ (HIST \notin DOMAIN results \/ PARAM \notin DOMAIN results) => exc \in KeyErrors
        /\ exc = "none" => (HIST \in DOMAIN results /\ PARAM \in DOMAIN results)

\* C6: recomputation is idempotent: a calculator called on a loaded frame
\* whose value for the present data and confidence_level is already stored
\* under its key (as it is whenever they are unchanged since it was stored),
\* in any interleaving with the other calculator, returns that value again
\* and leaves results as it was; results never holds an entry under any name
\* but the two keys.
C6_RecomputationIdempotent ==
    [][/\ \A call \in Calculators :
            (/\ op' = call
             /\ ReturnsError(data) = "none"
             /\ KeyOf(call) \in DOMAIN results
             /\ results[KeyOf(call)] = ValueOf(call, data, conf))
            => (overwrote' /\ ret' = results[KeyOf(call)] /\ results' = results)
       /\ DOMAIN results' \subseteq {HIST, PARAM}]_vars

C6_Witness ==
    /\ op = "calculate_historical_var"
    /\ overwrote
    /\ PARAM \in DOMAIN results
    /\ IsNum(ret)
    /\ ret.v # 0
    /\ ret = results[HIST]
    /\ results[PARAM] = ParametricValue(data, conf)

\* C7: for a non-empty return series, the value calculate_historical_var
\* yields is at most the value it yields at any lower confidence level and at
\* least the value it yields at any higher one.
C7_HistoricalVarMonotone ==
    (op = "calculate_historical_var" /\ exc = "none" /\ ~data.none /\ Len(data.rows) >= 1) =>
        /\ IsNum(ret)
        /\ \A c \in Levels :
            /\ c < conf => ret.v <= HistoricalValue(data, c).v
            /\ c > conf => HistoricalValue(data, c).v <= ret.v

C7_Witness ==
    /\ op = "calculate_historical_var"
    /\ IsNum(ret)
    /\ Len(data.rows) >= 2
    /\ \E c \in Levels : c < conf /\ ret.v < HistoricalValue(data, c).v
    /\ \E c \in Levels : c > conf /\ HistoricalValue(data, c).v < ret.v

ConstantPrices(f) ==
    /\ LoadOk(f)
    /\ Len(f.rows) >= 2
    /\ \A i \in 1..Len(f.rows) : IsNum(f.rows[i].Close) /\ f.rows[i].Close = f.rows[1].Close

\* C8: for a price series of at least 2 rows whose closing prices are all
\* equal, every return is 0 and both calculators yield (return and store) 0
\* at every confidence level.
C8_ConstantPricesGiveZero ==
    (pc # "constructing" /\ ConstantPrices(file)) =>
        /\ Len(data.rows) = Len(file.rows) - 1
        /\ \A i \in 1..Len(data.rows) : data.rows[i].Returns = Num(0)
        /\ (op \in Calculators =>
                (exc = "none" /\ ret = Num(0) /\ results[KeyOf(op)] = Num(0)))

C8_Witness ==
    /\ ConstantPrices(file)
    /\ Len(file.rows) >= 3
    /\ file.rows[1].Close.v > 1
    /\ op = "calculate_parametric_var"
    /\ ret = Num(0)
    /\ HIST \in DOMAIN results
    /\ results[HIST] = Num(0)

\* C9: after every failed load (file unreadable, Date column absent or Close
\* column absent) data is None, and every later calculator call returns None
\* without raising and adds nothing to results.
C9_FailedLoadLeavesNone ==
    [][/\ (op' = "load_data" /\ ~LoadOk(file')) => data'.none
       /\ (op' \in Calculators /\ ~LoadOk(file)) =>
                (ret' = NoneVal /\ exc' = "none" /\ results' = results)]_vars

\* C10 as stated: once load_data has finished, no call of a calculator, the
\* report or the chart changes data or confidence_level; a calculator leaves
\* the other entry alone; the report and the chart leave results alone; a
\* stored result keeps the value it had at insertion.
C10_StoredResultNeverChanges ==
    [][(pc # "constructing" /\ op' # "load_data") =>
        /\ data' = data
        /\ conf' = conf
        /\ \A call \in Calculators : \A k \in {HIST, PARAM} \ {KeyOf(call)} :
                op' = call => /\ (k \in DOMAIN results') = (k \in DOMAIN results)
                              /\ k \in DOMAIN results => results'[k] = results[k]
        /\ (op' \in {"generate_risk_report", "visualize_risk"} => results' = results)
        /\ \A k \in DOMAIN results : k \in DOMAIN results' /\ results'[k] = results[k]]_vars

\* C10 as amended: as stated, but a stored result keeps its value only until
\* its own calculator is called again: that call overwrites it with the value
\* computed from the data then loaded, which differs when load_data has run
\* since the result was stored.  No other call changes a stored result.
C10_FrameOfCalls ==
    [][(pc # "constructing" /\ op' # "load_data") =>
        /\ data' = data
        /\ conf' = conf
        /\ \A call \in Calculators : \A k \in {HIST, PARAM} \ {KeyOf(call)} :
                op' = call => /\ (k \in DOMAIN results') = (k \in DOMAIN results)
                              /\ k \in DOMAIN results => results'[k] = results[k]
        /\ (op' \in {"generate_risk_report", "visualize_risk"} => results' = results)
        /\ \A k \in DOMAIN results :
                /\ k \in DOMAIN results'
                /\ \/ results'[k] = results[k]
                   \/ /\ op' \in Calculators
                      /\ k = KeyOf(op')
                      /\ results'[k] = ValueOf(op', data, conf)]_vars

C10_Witness ==
    /\ op = "calculate_historical_var"
    /\ overwrote
    /\ IsNum(ret)
    /\ PARAM \in DOMAIN results
    /\ IsNum(results[PARAM])
    /\ results[PARAM] # ParametricValue(data, conf)
====
